---- MODULE Spec2Model ----
(***************************************************************************)
(* IDE / ATA-ATAPI task-file decoder (decoders/ata_taskfile/pd.py).        *)
(*                                                                         *)
(* The decoder is one sequential loop (Decoder.decode): wait for a falling *)
(* edge of DIOW- or DIOR-, snapshot the channels, then run one chain of    *)
(* if ... continue branches.  The model has one action for the wait and    *)
(* snapshot, one action per branch of the chain (each the whole rest of    *)
(* the iteration for the cycles that take this branch) and one for the     *)
(* jump back to the loop head.                                             *)
(*                                                                         *)
(* Bytes are written in decimal: 0x80 = 128, 0xA0 = 160, 0xE0 = 224.       *)
(***************************************************************************)
EXTENDS Integers, Sequences, FiniteSets, TLC

VARIABLES
  options,             \* self.options: the four boolean options
  tf,                  \* self.tf: the eleven task-file shadow fields
  hob,                 \* self.hob: Device Control bit 7 latch
  in_cdb,              \* self.in_cdb
  cdb_bytes_expected,  \* self.cdb_bytes_expected
  cdb_buf,             \* self.cdb_buf
  samples,             \* self.samples: channel levels at the strobe edge
  matched,             \* self.matched: levels of the two strobes at the edge
  pc,                  \* position in the loop: "wait", "decode", "next"
  out,                 \* annotations put by the current loop iteration, in order
  host,                \* the bus host: its kind, the bytes it drives on its own
                       \* and the parameters of its script
  step,                \* scripted cycles issued so far
  last_devctl_hob,     \* observer: bit 7 of the byte of the most recent
                       \* Device Control write on the bus, 0 before the first
  samplenum,           \* self.samplenum: the sample index wait() returned at
  sink                 \* the output sink: the records put so far, in order

vars == <<options, tf, hob, in_cdb, cdb_bytes_expected, cdb_buf,
          samples, matched, pc, out, host, step, last_devctl_hob,
          samplenum, sink>>

decoder == <<tf, hob, in_cdb, cdb_bytes_expected, cdb_buf>>

-----------------------------------------------------------------------------
(* Command and CDB mnemonic tables                                         *)

\* pd.py:39-169, keys in decimal (0x00 = 0)
ATA_COMMANDS ==
  <<
     <<0, "NOP">>,
     <<6, "DATA SET MANAGEMENT">>,
     <<7, "DATA SET MANAGEMENT XL">>,
     <<8, "DEVICE RESET">>,
     <<11, "REQUEST SENSE DATA EXT">>,
     <<16, "RECALIBRATE">>,
     <<32, "READ SECTORS">>,
     <<33, "READ SECTORS (no retry)">>,
     <<34, "READ LONG">>,
     <<35, "READ LONG (no retry)">>,
     <<36, "READ SECTORS EXT">>,
     <<37, "READ DMA EXT">>,
     <<38, "READ DMA QUEUED EXT">>,
     <<39, "READ NATIVE MAX ADDRESS EXT">>,
     <<41, "READ MULTIPLE EXT">>,
     <<42, "READ STREAM DMA EXT">>,
     <<43, "READ STREAM EXT">>,
     <<47, "READ LOG EXT">>,
     <<48, "WRITE SECTORS">>,
     <<49, "WRITE SECTORS (no retry)">>,
     <<50, "WRITE LONG">>,
     <<51, "WRITE LONG (no retry)">>,
     <<52, "WRITE SECTORS EXT">>,
     <<53, "WRITE DMA EXT">>,
     <<54, "WRITE DMA QUEUED EXT">>,
     <<57, "WRITE MULTIPLE EXT">>,
     <<58, "WRITE STREAM DMA EXT">>,
     <<59, "WRITE STREAM EXT">>,
     <<60, "WRITE VERIFY">>,
     <<61, "WRITE DMA FUA EXT">>,
     <<62, "WRITE DMA QUEUED FUA EXT">>,
     <<63, "WRITE LOG EXT">>,
     <<64, "READ VERIFY SECTORS">>,
     <<65, "READ VERIFY SECTORS (no retry)">>,
     <<66, "READ VERIFY SECTORS EXT">>,
     <<68, "ZERO EXT">>,
     <<69, "WRITE UNCORRECTABLE EXT">>,
     <<71, "READ LOG DMA EXT">>,
     <<74, "ZAC MANAGEMENT IN">>,
     <<80, "FORMAT TRACK">>,
     <<81, "CONFIGURE STREAM">>,
     <<91, "TRUSTED NON-DATA">>,
     <<92, "TRUSTED RECEIVE">>,
     <<93, "TRUSTED RECEIVE DMA">>,
     <<94, "TRUSTED SEND">>,
     <<95, "TRUSTED SEND DMA">>,
     <<96, "READ FPDMA QUEUED">>,
     <<97, "WRITE FPDMA QUEUED">>,
     <<99, "NCQ NON-DATA">>,
     <<100, "SEND FPDMA QUEUED">>,
     <<101, "RECEIVE FPDMA QUEUED">>,
     <<112, "SEEK">>,
     <<119, "SET DATE & TIME EXT">>,
     <<120, "ACCESSIBLE MAX ADDRESS CONFIGURATION">>,
     <<124, "REMOVE ELEMENT AND TRUNCATE">>,
     <<125, "RESTORE ELEMENTS AND REBUILD">>,
     <<135, "CFA TRANSLATE SECTOR">>,
     <<144, "EXECUTE DEVICE DIAGNOSTIC">>,
     <<145, "INITIALIZE DEVICE PARAMETERS">>,
     <<146, "DOWNLOAD MICROCODE">>,
     <<147, "DOWNLOAD MICROCODE DMA">>,
     <<159, "ZAC MANAGEMENT OUT">>,
     <<160, "PACKET">>,
     <<161, "IDENTIFY PACKET DEVICE">>,
     <<162, "SERVICE">>,
     <<176, "SMART">>,
     <<177, "DEVICE CONFIGURATION OVERLAY">>,
     <<178, "SET SECTOR CONFIGURATION EXT">>,
     <<180, "SANITIZE DEVICE">>,
     <<182, "NV CACHE">>,
     <<192, "CFA ERASE SECTORS">>,
     <<196, "READ MULTIPLE">>,
     <<197, "WRITE MULTIPLE">>,
     <<198, "SET MULTIPLE MODE">>,
     <<199, "READ DMA QUEUED">>,
     <<200, "READ DMA">>,
     <<201, "READ DMA (no retry)">>,
     <<202, "WRITE DMA">>,
     <<203, "WRITE DMA (no retry)">>,
     <<204, "WRITE DMA QUEUED">>,
     <<205, "CFA WRITE MULTIPLE WITHOUT ERASE">>,
     <<206, "WRITE MULTIPLE FUA EXT">>,
     <<209, "CHECK MEDIA CARD TYPE">>,
     <<218, "GET MEDIA STATUS">>,
     <<219, "ACKNOWLEDGE MEDIA CHANGE">>,
     <<222, "MEDIA LOCK">>,
     <<223, "MEDIA UNLOCK">>,
     <<224, "STANDBY IMMEDIATE">>,
     <<225, "IDLE IMMEDIATE">>,
     <<226, "STANDBY">>,
     <<227, "IDLE">>,
     <<228, "READ BUFFER">>,
     <<229, "CHECK POWER MODE">>,
     <<230, "SLEEP">>,
     <<231, "FLUSH CACHE">>,
     <<232, "WRITE BUFFER">>,
     <<233, "READ BUFFER DMA">>,
     <<234, "FLUSH CACHE EXT">>,
     <<235, "WRITE BUFFER DMA">>,
     <<236, "IDENTIFY DEVICE">>,
     <<237, "MEDIA EJECT">>,
     <<238, "IDENTIFY DEVICE DMA">>,
     <<239, "SET FEATURES">>,
     <<241, "SECURITY SET PASSWORD">>,
     <<242, "SECURITY UNLOCK">>,
     <<243, "SECURITY ERASE PREPARE">>,
     <<244, "SECURITY ERASE UNIT">>,
     <<245, "SECURITY FREEZE LOCK">>,
     <<246, "SECURITY DISABLE PASSWORD">>,
     <<248, "READ NATIVE MAX ADDRESS">>,
     <<249, "SET MAX ADDRESS">>
  >>

\* pd.py:175-177 (the override table ships empty)
CUSTOM_ATA_COMMANDS ==
  << >>

\* pd.py:180-202, keys in decimal (0x00 = 0)
ATAPI_CDB ==
  <<
     <<0, "TEST UNIT READY">>,
     <<3, "REQUEST SENSE">>,
     <<18, "INQUIRY">>,
     <<26, "MODE SENSE(6)">>,
     <<27, "START STOP UNIT">>,
     <<35, "READ FORMAT CAPACITIES">>,
     <<37, "READ CAPACITY(10)">>,
     <<40, "READ(10)">>,
     <<42, "WRITE(10)">>,
     <<43, "SEEK(10)">>,
     <<47, "VERIFY(10)">>,
     <<53, "SYNCHRONIZE CACHE(10)">>,
     <<67, "READ TOC/PMA/ATIP">>,
     <<68, "READ HEADER">>,
     <<69, "PLAY AUDIO(10)">>,
     <<71, "PLAY AUDIO MSF">>,
     <<72, "PLAY AUDIO TRACK/INDEX">>,
     <<74, "GET EVENT STATUS NOTIFICATION">>,
     <<90, "MODE SENSE(10)">>,
     <<161, "BLANK (MMC)">>,
     <<187, "SET CD SPEED (MMC)">>
  >>

\* pd.py:205-215, keys in decimal (0xC1 = 193)
CUSTOM_ATAPI_CDB ==
  <<
     <<193, "SONY: READ TOC">>,
     <<194, "SONY: READ SUB-CHANNEL">>,
     <<195, "SONY: READ HEADER">>,
     <<196, "SONY: PLAYBACK STATUS">>,
     <<197, "SONY: PAUSE">>,
     <<198, "SONY: PLAY TRACK">>,
     <<199, "SONY: PLAY MSF">>,
     <<200, "SONY: PLAY AUDIO (LBA+len)">>,
     <<201, "SONY: PLAYBACK CONTROL">>
  >>

\* dict.get(k): the value stored under k, or "" for Python's None (both falsy)
DictGet(d, k) ==
  IF \E i \in 1..Len(d) : d[i][1] = k
    THEN d[CHOOSE i \in 1..Len(d) : d[i][1] = k][2]
    ELSE ""

\* Python's `a or b` on strings/None
OrElse(a, b) == IF a # "" THEN a ELSE b

\* variant of AtaName: no fallback after the two tables
AtaName_NoFallback(op) ==
  OrElse(DictGet(CUSTOM_ATA_COMMANDS, op), DictGet(ATA_COMMANDS, op))

\* pd.py:492
AtaName(op) ==
  OrElse(DictGet(CUSTOM_ATA_COMMANDS, op), OrElse(DictGet(ATA_COMMANDS, op), "UNKNOWN"))

\* pd.py:472
CdbName(c0) ==
  OrElse(DictGet(CUSTOM_ATAPI_CDB, c0), OrElse(DictGet(ATAPI_CDB, c0), "SCSI CDB"))

-----------------------------------------------------------------------------
(* Program constants                                                       *)

PACKET == 160            \* 0xA0, pd.py:494
CDB_LEN == 12            \* pd.py:497

\* annotation class indices, pd.py:279-288
ANN_REGW == 0
ANN_REGR == 1
ANN_CMD == 2
ANN_CDB == 3
ANN_STATUS == 4
ANN_DEVCTL == 5
ANN_INTRQ == 6

-----------------------------------------------------------------------------
(* Bit helpers on naturals                                                 *)

Pow2(n) == 2 ^ n
BitAt(v, i) == (v \div Pow2(i)) % 2          \* (v >> i) & 1
AndMask(v, bits) == v % Pow2(bits)           \* v & (2^bits - 1)
Shl(v, n) == v * Pow2(n)                     \* v << n

-----------------------------------------------------------------------------
(* Sampling helpers                                                        *)

DataPins == <<"d0", "d1", "d2", "d3", "d4", "d5", "d6", "d7">>

\* rd_bit: get_sig finds every declared channel (mandatory or optional), so
\* the level comes from the snapshot
rd_bit(name) == samples[name]

Truthy(level) == IF level # 0 THEN 1 ELSE 0

RECURSIVE Bus8From(_)
Bus8From(i) ==
  IF i > 8 THEN 0
  ELSE Shl(Truthy(rd_bit(DataPins[i])), i - 1) + Bus8From(i + 1)

rd_bus8 == AndMask(Bus8From(1), 8)

rd_addr ==
  Truthy(rd_bit("da0")) + Shl(Truthy(rd_bit("da1")), 1) + Shl(Truthy(rd_bit("da2")), 2)

\* cs_sel: the selects are active low
cs_sel == <<rd_bit("cs0") = 0, rd_bit("cs1") = 0>>

None == "None"

\* variant of reg_name: the task-file block is decoded on CS0- alone
\* (`if cs0:` for `if cs0 and not cs1:`)
reg_name_Cs0Alone(cs0, cs1, da, is_write) ==
  IF cs0 THEN
    CASE da = 0 -> "data"
      [] da = 1 -> IF is_write THEN "features" ELSE "error"
      [] da = 2 -> "sector_count"
      [] da = 3 -> "lba0"
      [] da = 4 -> "lba1"
      [] da = 5 -> "lba2"
      [] da = 6 -> "device"
      [] da = 7 -> IF is_write THEN "command" ELSE "status"
      [] OTHER -> None
  ELSE IF cs1 /\ ~cs0 THEN
    CASE da = 6 -> IF is_write THEN "devctl" ELSE "altstatus"
      [] da = 7 -> "drive_addr"
      [] OTHER -> None
  ELSE None

\* variant of reg_name: address 1 is Features in both directions
reg_name_NoError(cs0, cs1, da, is_write) ==
  IF cs0 /\ ~cs1 THEN
    CASE da = 0 -> "data"
      [] da = 1 -> "features"
      [] da = 2 -> "sector_count"
      [] da = 3 -> "lba0"
      [] da = 4 -> "lba1"
      [] da = 5 -> "lba2"
      [] da = 6 -> "device"
      [] da = 7 -> IF is_write THEN "command" ELSE "status"
      [] OTHER -> None
  ELSE IF cs1 /\ ~cs0 THEN
    CASE da = 6 -> IF is_write THEN "devctl" ELSE "altstatus"
      [] da = 7 -> "drive_addr"
      [] OTHER -> None
  ELSE None

\* pd.py:358-383
reg_name(cs0, cs1, da, is_write) ==
  IF cs0 /\ ~cs1 THEN
    CASE da = 0 -> "data"
      [] da = 1 -> IF is_write THEN "features" ELSE "error"
      [] da = 2 -> "sector_count"
      [] da = 3 -> "lba0"
      [] da = 4 -> "lba1"
      [] da = 5 -> "lba2"
      [] da = 6 -> "device"
      [] da = 7 -> IF is_write THEN "command" ELSE "status"
      [] OTHER -> None
  ELSE IF cs1 /\ ~cs0 THEN
    CASE da = 6 -> IF is_write THEN "devctl" ELSE "altstatus"
      [] da = 7 -> "drive_addr"
      [] OTHER -> None
  ELSE None

\* str.upper() on the register names
Upper(reg) ==
  CASE reg = "data" -> "DATA"
    [] reg = "features" -> "FEATURES"
    [] reg = "error" -> "ERROR"
    [] reg = "sector_count" -> "SECTOR_COUNT"
    [] reg = "lba0" -> "LBA0"
    [] reg = "lba1" -> "LBA1"
    [] reg = "lba2" -> "LBA2"
    [] reg = "device" -> "DEVICE"
    [] reg = "command" -> "COMMAND"
    [] reg = "status" -> "STATUS"
    [] reg = "devctl" -> "DEVCTL"
    [] reg = "altstatus" -> "ALTSTATUS"
    [] reg = "drive_addr" -> "DRIVE_ADDR"

-----------------------------------------------------------------------------
(* Derived addressing                                                      *)

\* self.tf['device'] & 0x40
lba_mode == IF BitAt(tf["device"], 6) = 1 THEN "LBA" ELSE "CHS"

\* variant of lba28: the three LBA bytes in reverse order
lba28_Reversed ==
  AndMask(Shl(AndMask(tf["device"], 4), 24) + Shl(tf["lba0"], 16)
            + Shl(tf["lba1"], 8) + tf["lba2"], 28)

\* The or-ed bytes occupy disjoint bit ranges, so | is +.  At most 2^28.
lba28 ==
  AndMask(Shl(AndMask(tf["device"], 4), 24) + Shl(tf["lba2"], 16)
            + Shl(tf["lba1"], 8) + tf["lba0"], 28)

\* A 48-bit value is kept as two 24-bit limbs <<high, low>>, value
\* high * 2^24 + low.  ((hi << 24) | lo) & 0xFFFFFFFFFFFF keeps lo whole
\* (lo < 2^24) and the low 24 bits of hi.
lba48 ==
  LET hi == Shl(tf["hob_lba2"], 16) + Shl(tf["hob_lba1"], 8) + tf["hob_lba0"]
      lo == Shl(tf["lba2"], 16) + Shl(tf["lba1"], 8) + tf["lba0"]
  IN  <<AndMask(hi, 24), lo>>

Limbs(v) == <<v \div Pow2(24), AndMask(v, 24)>>

sc48 == AndMask(Shl(tf["hob_sector_count"], 8) + tf["sector_count"], 16)

HobKeys == <<"hob_sector_count", "hob_lba0", "hob_lba1", "hob_lba2">>

\* variant of hob_any: hob_features counts as well
hob_any_WithFeatures ==
  tf["hob_features"] # 0 \/ \E i \in 1..Len(HobKeys) : tf[HobKeys[i]] # 0

\* variant of hob_any: extended only while the HOB latch is set
hob_any_WhileLatched ==
  hob # 0 /\ \E i \in 1..Len(HobKeys) : tf[HobKeys[i]] # 0

\* any(self.tf[k] for k in (...)), pd.py:503
hob_any == \E i \in 1..Len(HobKeys) : tf[HobKeys[i]] # 0

-----------------------------------------------------------------------------
(* Annotations: puta(ss, es, aidx, text).  A text is kept as its format    *)
(* (the literal part of the f-string), the strings and the numbers         *)
(* substituted into it, in order.                                          *)

Ann(aidx, fmt, strs, nums) == [aidx |-> aidx, fmt |-> fmt, s |-> strs, n |-> nums]

\* pd.py:440-441  "DEVCTL write: SRST=.. nIEN=.. HOB=.."
DevCtlAnn(val) ==
  Ann(ANN_DEVCTL, "DEVCTL write: SRST= nIEN= HOB=", << >>,
      <<BitAt(val, 2), BitAt(val, 1), BitAt(val, 7)>>)

\* pd.py:446  "{reg.upper()} read: 0x.."
StatusAnn(reg, val) == Ann(ANN_STATUS, "{} read: 0x", <<Upper(reg)>>, <<val>>)

\* pd.py:450
IntrqAnn == Ann(ANN_INTRQ, "INTRQ cleared", << >>, << >>)

\* pd.py:458, 461  "{reg} = 0x.."
RegWriteAnn(field, val) == Ann(ANN_REGW, "{} = 0x", <<field>>, <<val>>)

\* pd.py:473  "ATAPI CDB[0]=0x.. {name}"
CdbFirstAnn(c0) == Ann(ANN_CDB, "ATAPI CDB[0]=0x {}", <<CdbName(c0)>>, <<c0>>)

\* pd.py:476  "CDB complete (n bytes)"
CdbCompleteAnn(n) == Ann(ANN_CDB, "CDB complete ( bytes)", << >>, <<n>>)

\* pd.py:479
CdbByteAnn == Ann(ANN_CDB, "ATAPI CDB byte", << >>, << >>)

\* pd.py:485-486  "DATA {op}: 0x.."
DataAnn(is_write, val) ==
  Ann(IF is_write THEN ANN_REGW ELSE ANN_REGR, "DATA {}: 0x",
      <<IF is_write THEN "WRITE" ELSE "READ">>, <<val>>)

\* pd.py:499-511  "CMD 0x.. {name}  SC=..  LBA28|LBA48=0x..  DEV=0x..({mode})"
\* numbers: opcode, sector count, LBA high limb, LBA low limb, device
CmdAnn(op) ==
  LET sc  == IF hob_any THEN sc48 ELSE tf["sector_count"]
      lba == IF hob_any THEN lba48 ELSE Limbs(lba28)
      tag == IF hob_any THEN "LBA48" ELSE "LBA28"
  IN  Ann(ANN_CMD, "CMD 0x {}  SC=  {}=0x  DEV=0x({})",
          <<AtaName(op), tag, lba_mode>>,
          <<op, sc, lba[1], lba[2], tf["device"]>>)

\* pd.py:516  "{reg} read: 0x.."
RegReadAnn(reg, val) == Ann(ANN_REGR, "{} read: 0x", <<reg>>, <<val>>)

-----------------------------------------------------------------------------
(* The cycle being decoded (pc = "decode" or "next")                       *)

\* variant of is_write: the strobe taken as active high
is_write_ActiveHigh == matched["diow"] = 1

is_write == matched["diow"] = 0                \* pd.py:415
is_read  == matched["dior"] = 0                \* pd.py:416

\* variant of squelched: DMARQ taken as active low
squelched_ActiveLow == options["squelch_dma"] /\ rd_bit("dmarq") = 0

\* pd.py:419-423; get_sig('dmarq') always finds the optional channel
squelched == options["squelch_dma"] /\ rd_bit("dmarq") # 0

reg == reg_name(cs_sel[1], cs_sel[2], rd_addr, is_write)   \* pd.py:426-428
val == rd_bus8                                              \* pd.py:434

ParamRegs == {"features", "sector_count", "lba0", "lba1", "lba2", "device"}
HobRegs == {"features", "sector_count", "lba0", "lba1", "lba2"}

\* 'hob_' + reg
HobOf(r) ==
  CASE r = "features" -> "hob_features"
    [] r = "sector_count" -> "hob_sector_count"
    [] r = "lba0" -> "hob_lba0"
    [] r = "lba1" -> "hob_lba1"
    [] r = "lba2" -> "hob_lba2"

\* variant of TargetField: the HOB latch is not consulted
TargetField_NoRedirect(r) == r

\* pd.py:455-460: the field a parameter write stores into
TargetField(r) == IF hob # 0 /\ r \in HobRegs THEN HobOf(r) ELSE r

\* The branch of the if/continue chain a cycle takes, in source order
ToSquelch == squelched
ToNoReg   == ~ToSquelch /\ reg = None
AtChain   == ~ToSquelch /\ reg # None
ToDevCtl  == AtChain /\ reg = "devctl" /\ is_write
\* variant of ToReads: only Status and AltStatus reads, emit_reads left to
\* the end of the chain
ToReads_StatusOnly ==
  AtChain /\ ~ToDevCtl /\ reg \in {"status", "altstatus"} /\ is_read

\* variant of ToReads: Status and AltStatus reads need emit_reads as well
ToReads_OptionOnly == AtChain /\ ~ToDevCtl /\ options["emit_reads"] /\ is_read

ToReads   == /\ AtChain /\ ~ToDevCtl
             /\ \/ (reg \in {"status", "altstatus"} /\ is_read)
                \/ (options["emit_reads"] /\ is_read)
ToParams  == AtChain /\ ~ToDevCtl /\ ~ToReads /\ is_write /\ reg \in ParamRegs
ToData    == AtChain /\ ~ToDevCtl /\ ~ToReads /\ ~ToParams /\ reg = "data"
ToCommand == /\ AtChain /\ ~ToDevCtl /\ ~ToReads /\ ~ToParams /\ ~ToData
             /\ reg = "command" /\ is_write
ToOther   == AtChain /\ ~ToDevCtl /\ ~ToReads /\ ~ToParams /\ ~ToData /\ ~ToCommand

-----------------------------------------------------------------------------
(* The bus host (the environment)                                          *)

MaxNonZero == 1     \* nonzero bytes a free-running host keeps stored in the decoder

Bit == {0, 1}

\* The strobes at the edge wait() returned on: DIOW- low, DIOR- low, or both
Strobes == { [diow |-> 0, dior |-> 1], [diow |-> 1, dior |-> 0],
             [diow |-> 0, dior |-> 0] }

\* A snapshot with byte v on D0..D7
Snapshot(cs0, cs1, da, v, dmarq, intrq) ==
  [d0 |-> BitAt(v, 0), d1 |-> BitAt(v, 1), d2 |-> BitAt(v, 2), d3 |-> BitAt(v, 3),
   d4 |-> BitAt(v, 4), d5 |-> BitAt(v, 5), d6 |-> BitAt(v, 6), d7 |-> BitAt(v, 7),
   cs0 |-> cs0, cs1 |-> cs1,
   da0 |-> BitAt(da, 0), da1 |-> BitAt(da, 1), da2 |-> BitAt(da, 2),
   dmarq |-> dmarq, intrq |-> intrq]

\* before the first strobe, and once an iteration has ended
NoSamples == [none |-> TRUE]
NoMatched == [none |-> TRUE]

\* A scripted register cycle: the select lines, address, strobes and byte
Cyc(cs0, cs1, da, diow, dior, v, dmarq, intrq) ==
  [cs0 |-> cs0, cs1 |-> cs1, da |-> da, diow |-> diow, dior |-> dior, v |-> v,
   dmarq |-> dmarq, intrq |-> intrq]

\* task-file block (CS0- low): write / read of address da; DMARQ low, INTRQ high
TfWrite(da, v) == Cyc(0, 1, da, 0, 1, v, 0, 1)
TfRead(da, v)  == Cyc(0, 1, da, 1, 0, v, 0, 1)
\* control block (CS1- low): write of address da; DMARQ low, INTRQ high
CtlWrite(da, v) == Cyc(1, 0, da, 0, 1, v, 0, 1)

\* Cycles that end every script, so that each branch of the chain is taken:
\* a Status read under DMARQ, a cycle with no select, a Drive Address write,
\* a Data write, a Status read with INTRQ low, and a Device Control, Features
\* and Command (NOP) write
Epilogue ==
  << Cyc(0, 1, 7, 1, 0, 80, 1, 1), Cyc(1, 1, 0, 0, 1, 0, 0, 1), CtlWrite(7, 0),
     TfWrite(0, 0), Cyc(0, 1, 7, 1, 0, 80, 0, 0), CtlWrite(6, 0), TfWrite(1, 0),
     TfWrite(7, 0) >>

\* The cycle in `samples` is a Device Control write that is not squelched:
\* CS1- alone low, address 6, DIOW- low (read off the bus lines)
BusDevCtlWrite ==
  /\ ~(options["squelch_dma"] /\ samples["dmarq"] = 1)
  /\ samples["cs0"] = 1 /\ samples["cs1"] = 0
  /\ samples["da2"] = 1 /\ samples["da1"] = 1 /\ samples["da0"] = 0
  /\ matched["diow"] = 0

NonZeroFields(t) == Cardinality({k \in DOMAIN t : t[k] # 0})
NonZeroBytes(b) == Cardinality({i \in 1..Len(b) : b[i] # 0})

\* What the decoder would hold after the cycle now in `samples`
StoredAfter ==
  IF ToParams THEN NonZeroFields([tf EXCEPT ![TargetField(reg)] = val]) + NonZeroBytes(cdb_buf)
  ELSE IF ToData /\ in_cdb /\ is_write /\ options["parse_cdb"]
    THEN NonZeroFields(tf) + NonZeroBytes(Append(cdb_buf, val))
  ELSE NonZeroFields(tf) + NonZeroBytes(cdb_buf)

\* A free-running host never raises the stored nonzero bytes above its quota
WithinQuota ==
  \/ StoredAfter <= host.quota
  \/ StoredAfter <= NonZeroFields(tf) + NonZeroBytes(cdb_buf)

\* Free register traffic: bytes 0x00 and 0x80 (bit 7: HOB), no PACKET
RegisterHost == [name |-> "registers", bus |-> {0, 128}, quota |-> MaxNonZero,
                 p |-> << >>]

\* Free packet traffic: bytes 0x00 and 0xA0 (PACKET; bit 7 set); only zero
\* bytes are stored
PacketHost == [name |-> "packets", bus |-> {0, 160}, quota |-> 0, p |-> << >>]

\* Scripted: the end-to-end write sequence of a READ SECTORS command
E2EScript ==
  << CtlWrite(6, 0), TfWrite(2, 1), TfWrite(3, 16), TfWrite(4, 0), TfWrite(5, 0),
     TfWrite(6, 224), TfWrite(7, 32) >>

E2EHost == [name |-> "e2e", bus |-> {}, quota |-> 0, p |-> << >>]

\* Scripted: a task file loaded through the HOB latch, then a Command write.
\* p gives the bytes the host writes.
TaskFiles ==
  [ device : {67, 15},                            \* 0x43, 0x0F
    lba : {<<18, 52, 86>>, <<255, 0, 255>>},      \* lba2, lba1, lba0
    sector_count : {1, 255},
    features : {0},
    hob_sector_count : {0, 2},
    hob_lba2 : {0, 170}, hob_lba1 : {0, 187}, hob_lba0 : {0, 204},  \* 0xAA 0xBB 0xCC
    hob_features : {0, 85},
    op : {32} ]

LoadScript(p) ==
  << CtlWrite(6, 128),
     TfWrite(1, p.hob_features), TfWrite(2, p.hob_sector_count),
     TfWrite(3, p.hob_lba0), TfWrite(4, p.hob_lba1), TfWrite(5, p.hob_lba2),
     CtlWrite(6, 0),
     TfWrite(1, p.features), TfWrite(2, p.sector_count),
     TfWrite(3, p.lba[3]), TfWrite(4, p.lba[2]), TfWrite(5, p.lba[1]),
     TfWrite(6, p.device),
     TfWrite(7, p.op) >>

LoadHost(p) == [name |-> "load", bus |-> {}, quota |-> 0, p |-> p]

\* Scripted: optionally a PACKET command and the first `pre` bytes of one CDB
\* (pre = -1: none), then a PACKET command, the 12 bytes of CDB `cdb`, and a
\* 13th Data write of byte x.
Cdbs ==
  << <<18, 1, 2, 3, 36, 5, 6, 7, 8, 9, 10, 11>>,          \* 0x12 INQUIRY
     <<193, 0, 160, 0, 0, 0, 1, 0, 0, 0, 0, 160>>,        \* 0xC1 (custom table)
     <<255, 255, 0, 255, 0, 0, 0, 0, 0, 0, 0, 254>> >>    \* 0xFF (no table)

AbandonedCdb == <<40, 0, 0, 0, 1, 0, 0, 0, 16, 0, 0, 0>>    \* 0x28 READ(10)

DataWrites(bytes) == [i \in 1..Len(bytes) |-> TfWrite(0, bytes[i])]

PacketRuns == [pre : -1..CDB_LEN, cdb : 1..Len(Cdbs), x : {0, 160}]

PacketPrefix(p) ==
  IF p.pre < 0 THEN << >>
  ELSE <<TfWrite(7, PACKET)>> \o DataWrites(SubSeq(AbandonedCdb, 1, p.pre))

PacketScript(p) ==
  PacketPrefix(p) \o <<TfWrite(7, PACKET)>> \o DataWrites(Cdbs[p.cdb])
    \o <<TfWrite(0, p.x)>>

PacketRunHost(p) == [name |-> "packet-run", bus |-> {}, quota |-> 0, p |-> p]

\* Scripted, with the sample index and the sink followed: a Device Control
\* write, a Status read with INTRQ low, a Sector Count write under DMARQ, a
\* PACKET command, the first CDB byte and an Error read
OrderScript ==
  << CtlWrite(6, 128), Cyc(0, 1, 7, 1, 0, 80, 0, 0), Cyc(0, 1, 2, 0, 1, 5, 1, 1),
     TfWrite(7, PACKET), TfWrite(0, 18), TfRead(1, 0) >>

OrderHost == [name |-> "order", bus |-> {}, quota |-> 0, p |-> << >>]

\* The sample index and the sink are followed for the order host only; for
\* the other hosts the index, which the decoder only passes on to put(), is
\* left out (kept at 0) and the sink keeps nothing.
Traced(h) == h.name = "order"

MaxGap == 2     \* samples between two strobe edges, at most

\* The samples wait() advances by before the edge of cycle n + 1: at least
\* one, the sample index being increasing; free within the order script
Gaps(h, n) ==
  IF ~Traced(h) THEN {0}
  ELSE IF n < Len(OrderScript) THEN 1..MaxGap
  ELSE {1}

\* Scripted, on a setup whose optional INTRQ channel is not connected: a
\* Status read, an Error read, an AltStatus read and a Sector Count write
UnwiredScript ==
  << TfRead(7, 80), TfRead(1, 0), Cyc(1, 0, 6, 1, 0, 80, 0, 1), TfWrite(2, 1) >>

UnwiredHost == [name |-> "no-intrq", bus |-> {}, quota |-> 0, p |-> << >>]

\* whether the INTRQ channel is connected in this host's setup
IntrqWired(h) == h.name # "no-intrq"

\* pd.py:413: the snapshot's entry for INTRQ; the channel is declared, so it
\* has an index, and a channel with no level reads as the default 0
\* (self.matched.get(i, 0))
IntrqPin(h, level) == IF IntrqWired(h) THEN level ELSE 0

\* Scripted: one opcode, written either to the Command register or, after
\* a PACKET command, as the first CDB byte
Opcodes == [kind : {"command", "cdb"}, code : 0..255]

OpcodeScript(p) ==
  IF p.kind = "command" THEN <<TfWrite(7, p.code)>>
  ELSE <<TfWrite(7, PACKET), TfWrite(0, p.code)>>

OpcodeHost(p) == [name |-> "opcode", bus |-> {}, quota |-> 0, p |-> p]

\* Scripted: byte v goes to the high-order field of register da (Sector
\* Count, LBA0, LBA1 or LBA2) under the HOB latch; the latch is cleared, new
\* primary values are written and two commands follow; then the high-order
\* field is zeroed under the latch, the latch is cleared and a command follows
StickyRuns == [da : 2..5, v : {1, 255}, op : {32, 236}]

StickyScript(p) ==
  << CtlWrite(6, 128), TfWrite(p.da, p.v), CtlWrite(6, 0),
     TfWrite(2, 1), TfWrite(3, 16), TfWrite(4, 0), TfWrite(5, 0), TfWrite(6, 224),
     TfWrite(7, p.op), TfWrite(p.da, 0), TfWrite(7, 0),
     CtlWrite(6, 128), TfWrite(p.da, 0), CtlWrite(6, 0), TfWrite(7, p.op) >>

StickyHost(p) == [name |-> "sticky", bus |-> {}, quota |-> 0, p |-> p]

\* The cycles a host issues in order before it stops (none: free-running)
Script(h) ==
  CASE h.name = "e2e" -> E2EScript \o Epilogue
    [] h.name = "sticky" -> StickyScript(h.p) \o Epilogue
    [] h.name = "opcode" -> OpcodeScript(h.p) \o Epilogue
    [] h.name = "no-intrq" -> UnwiredScript \o Epilogue
    [] h.name = "order" -> OrderScript \o Epilogue
    [] h.name = "load" -> LoadScript(h.p) \o Epilogue
    [] h.name = "packet-run" -> PacketScript(h.p) \o Epilogue
    [] OTHER -> << >>

-----------------------------------------------------------------------------
(* Initial state: Decoder.reset                                            *)

TfKeys == {"features", "sector_count", "lba0", "lba1", "lba2", "device",
           "hob_features", "hob_sector_count", "hob_lba0", "hob_lba1", "hob_lba2"}

OptionSets == [parse_cdb : BOOLEAN, ignore_data : BOOLEAN,
               squelch_dma : BOOLEAN, emit_reads : BOOLEAN]

Reset(h) ==
  /\ options \in OptionSets
  /\ tf = [k \in TfKeys |-> 0]
  /\ hob = 0
  /\ in_cdb = FALSE
  /\ cdb_bytes_expected = 0
  /\ cdb_buf = << >>
  /\ samples = NoSamples
  /\ matched = NoMatched
  /\ pc = "wait"
  /\ out = << >>
  /\ host = h
  /\ step = 0
  /\ last_devctl_hob = 0
  /\ samplenum = 0
  /\ sink = << >>

-----------------------------------------------------------------------------
(* Actions                                                                 *)

\* variant of Put: the new records go in front of the earlier ones
Put_InFront(s, anns) ==
  IF Traced(host)
    THEN [i \in 1..Len(anns) |->
            [ss |-> samplenum, es |-> samplenum, cycle |-> step, ann |-> anns[i]]] \o s
    ELSE s

\* pd.py:355-356 puta, called with ss (pd.py:411) and es (pd.py:435), both
\* self.samplenum of the current cycle: the sink after the annotations anns
\* of this cycle have been put, in order
Put(s, anns) ==
  IF Traced(host)
    THEN s \o [i \in 1..Len(anns) |->
                 [ss |-> samplenum, es |-> samplenum, cycle |-> step, ann |-> anns[i]]]
    ELSE s

\* pd.py:408-416: wait() returns on a strobe edge and the channels are
\* snapshotted.  A host with a script issues its cycles in order (INTRQ
\* free) and then stops; a free-running host issues any cycle over its bytes.
Strobe ==
  LET script == Script(host) IN
  /\ pc = "wait"
  /\ pc' = "decode"
  /\ out' = << >>
  /\ UNCHANGED <<options, decoder, host>>
  /\ IF step < Len(script)
       THEN LET c == script[step + 1] IN
            /\ samples' = Snapshot(c.cs0, c.cs1, c.da, c.v, c.dmarq,
                                    IntrqPin(host, c.intrq))
            /\ matched' = [diow |-> c.diow, dior |-> c.dior]
            /\ step' = step + 1
       ELSE /\ \E cs0 \in Bit, cs1 \in Bit, da \in 0..7, v \in host.bus,
                  dmarq \in Bit, intrq \in Bit :
                 samples' = Snapshot(cs0, cs1, da, v, dmarq, intrq)
            /\ matched' \in Strobes
            /\ step' = step
            /\ WithinQuota'
  /\ last_devctl_hob' = IF BusDevCtlWrite' THEN samples'["d7"] ELSE last_devctl_hob
  /\ samplenum' \in {samplenum + g : g \in Gaps(host, step)}
  /\ UNCHANGED sink

\* pd.py:419-423
Squelch ==
  /\ pc = "decode" /\ ToSquelch
  /\ pc' = "next"
  /\ UNCHANGED <<options, decoder, samples, matched, out, host, step, last_devctl_hob,
                 samplenum, sink>>

\* pd.py:431-432
NoReg ==
  /\ pc = "decode" /\ ToNoReg
  /\ pc' = "next"
  /\ UNCHANGED <<options, decoder, samples, matched, out, host, step, last_devctl_hob,
                 samplenum, sink>>

\* variant of HobLatch: the latch follows SRST (bit 2)
HobLatch_Srst(v) == IF BitAt(v, 2) # 0 THEN 1 ELSE 0

\* pd.py:439: 1 if (val & 0x80) else 0
HobLatch(v) == IF BitAt(v, 7) # 0 THEN 1 ELSE 0

\* pd.py:438-442
DevCtlWrite ==
  /\ pc = "decode" /\ ToDevCtl
  /\ hob' = HobLatch(val)
  /\ out' = <<DevCtlAnn(val)>>
  /\ sink' = Put(sink, out')
  /\ pc' = "next"
  /\ UNCHANGED <<options, tf, in_cdb, cdb_bytes_expected, cdb_buf,
                 samples, matched, host, step, last_devctl_hob, samplenum>>

\* pd.py:445-451
ReadAnnot ==
  /\ pc = "decode" /\ ToReads
  /\ out' = <<StatusAnn(reg, val)>>
              \o (IF rd_bit("intrq") = 0 THEN <<IntrqAnn>> ELSE << >>)
  /\ sink' = Put(sink, out')
  /\ pc' = "next"
  /\ UNCHANGED <<options, decoder, samples, matched, host, step, last_devctl_hob, samplenum>>

\* pd.py:454-462
ParamWrite ==
  /\ pc = "decode" /\ ToParams
  /\ tf' = [tf EXCEPT ![TargetField(reg)] = val]
  /\ out' = <<RegWriteAnn(TargetField(reg), val)>>
  /\ sink' = Put(sink, out')
  /\ pc' = "next"
  /\ UNCHANGED <<options, hob, in_cdb, cdb_bytes_expected, cdb_buf,
                 samples, matched, host, step, last_devctl_hob, samplenum>>

\* variant of CdbFull: > for >=
CdbFull_Late(buf) == cdb_bytes_expected # 0 /\ Len(buf) > cdb_bytes_expected

\* pd.py:474: the capture ends once the collected bytes reach the expected count
CdbFull(buf) == cdb_bytes_expected # 0 /\ Len(buf) >= cdb_bytes_expected

\* pd.py:465-487
DataAccess ==
  /\ pc = "decode" /\ ToData
  /\ IF in_cdb /\ is_write
       THEN IF options["parse_cdb"]
              THEN LET buf  == Append(cdb_buf, val)
                       full == CdbFull(buf)
                   IN  /\ cdb_buf' = buf
                       /\ in_cdb' = (IF full THEN FALSE ELSE in_cdb)
                       /\ out' = (IF Len(buf) = 1 THEN <<CdbFirstAnn(buf[1])>> ELSE << >>)
                                   \o (IF full THEN <<CdbCompleteAnn(Len(buf))>> ELSE << >>)
              ELSE /\ out' = <<CdbByteAnn>>
                   /\ UNCHANGED <<cdb_buf, in_cdb>>
       ELSE /\ out' = (IF options["ignore_data"] THEN << >>
                       ELSE <<DataAnn(is_write, val)>>)
            /\ UNCHANGED <<cdb_buf, in_cdb>>
  /\ sink' = Put(sink, out')
  /\ pc' = "next"
  /\ UNCHANGED <<options, tf, hob, cdb_bytes_expected, samples, matched, host, step, last_devctl_hob, samplenum>>

\* variant of OpenCdbWindow: the window opens only when CDBs are parsed
OpenCdbWindow_ParsedOnly ==
  /\ in_cdb' = options["parse_cdb"]
  /\ cdb_bytes_expected' = CDB_LEN
  /\ cdb_buf' = << >>

\* variant of OpenCdbWindow: 16 bytes expected
OpenCdbWindow_Sixteen ==
  /\ in_cdb' = TRUE
  /\ cdb_bytes_expected' = 16
  /\ cdb_buf' = << >>

\* variant of OpenCdbWindow: the collected bytes are kept
OpenCdbWindow_KeepBytes ==
  /\ in_cdb' = TRUE
  /\ cdb_bytes_expected' = CDB_LEN
  /\ UNCHANGED cdb_buf

\* pd.py:494-498: PACKET opens the CDB window
OpenCdbWindow ==
  /\ in_cdb' = TRUE
  /\ cdb_bytes_expected' = CDB_LEN
  /\ cdb_buf' = << >>

\* pd.py:490-512
CommandWrite ==
  /\ pc = "decode" /\ ToCommand
  /\ IF val = PACKET
       THEN OpenCdbWindow
       ELSE UNCHANGED <<in_cdb, cdb_bytes_expected, cdb_buf>>
  /\ out' = <<CmdAnn(val)>>
  /\ sink' = Put(sink, out')
  /\ pc' = "next"
  /\ UNCHANGED <<options, tf, hob, samples, matched, host, step, last_devctl_hob, samplenum>>

\* pd.py:514-516: a cycle no earlier branch took
OtherCycle ==
  /\ pc = "decode" /\ ToOther
  /\ out' = (IF options["emit_reads"] /\ is_read
               THEN <<RegReadAnn(reg, val)>> ELSE << >>)
  /\ sink' = Put(sink, out')
  /\ pc' = "next"
  /\ UNCHANGED <<options, decoder, samples, matched, host, step, last_devctl_hob, samplenum>>

\* continue / end of the loop body: back to wait() at pd.py:408-410
Continue ==
  /\ pc = "next"
  /\ pc' = "wait"
  /\ samples' = NoSamples
  /\ matched' = NoMatched
  /\ out' = << >>
  /\ UNCHANGED <<options, decoder, host, step, last_devctl_hob, samplenum, sink>>

Next ==
  \/ Strobe
  \/ Squelch
  \/ NoReg
  \/ DevCtlWrite
  \/ ReadAnnot
  \/ ParamWrite
  \/ DataAccess
  \/ CommandWrite
  \/ OtherCycle
  \/ Continue

-----------------------------------------------------------------------------
(* Specifications                                                          *)

\* free traffic of a register host or a packet host
Init == \E h \in {RegisterHost, PacketHost} : Reset(h)
Spec == Init /\ [][Next]_vars

\* the end-to-end write sequence
InitE2E == Reset(E2EHost)
SpecE2E == InitE2E /\ [][Next]_vars

\* task files loaded through the HOB latch, then a Command write
InitAddr == \E p \in TaskFiles : Reset(LoadHost(p))
SpecAddr == InitAddr /\ [][Next]_vars

\* the order script, with sample indices and the sink
InitOrder == Reset(OrderHost)
SpecOrder == InitOrder /\ [][Next]_vars

\* reads on a setup without INTRQ
InitUnwired == Reset(UnwiredHost)
SpecUnwired == InitUnwired /\ [][Next]_vars

\* every opcode, as a command and as a first CDB byte
InitOpcode == \E p \in Opcodes : Reset(OpcodeHost(p))
SpecOpcode == InitOpcode /\ [][Next]_vars

\* a high-order field set and later zeroed
InitSticky == \E p \in StickyRuns : Reset(StickyHost(p))
SpecSticky == InitSticky /\ [][Next]_vars

\* PACKET commands and their CDB bytes
InitPacket == \E p \in PacketRuns : Reset(PacketRunHost(p))
SpecPacket == InitPacket /\ [][Next]_vars

-----------------------------------------------------------------------------
(* Vocabulary of the properties: a bus cycle as the bus lines show it      *)

Decoding == pc = "decode"            \* a cycle is about to be decoded
Decoded  == pc = "next"              \* the cycle in `samples` has been decoded

\* the cycle is dropped by the DMA squelch
CycleSquelched == options["squelch_dma"] /\ samples["dmarq"] = 1

\* a write cycle: DIOW- alone low; a read cycle: DIOR- alone low
WriteCycle == matched["diow"] = 0 /\ matched["dior"] = 1
ReadCycle  == matched["dior"] = 0 /\ matched["diow"] = 1

Cs0Active == samples["cs0"] = 0
Cs1Active == samples["cs1"] = 0
Address == samples["da0"] + 2 * samples["da1"] + 4 * samples["da2"]
DataByte ==
  samples["d0"] + 2 * samples["d1"] + 4 * samples["d2"] + 8 * samples["d3"]
    + 16 * samples["d4"] + 32 * samples["d5"] + 64 * samples["d6"]
    + 128 * samples["d7"]

\* The decision table of the register classifier
TaskFileTable(isWrite) ==
  << "data", IF isWrite THEN "features" ELSE "error", "sector_count", "lba0",
     "lba1", "lba2", "device", IF isWrite THEN "command" ELSE "status" >>

Classified(cs0Active, cs1Active, address, isWrite) ==
  IF cs0Active /\ ~cs1Active THEN TaskFileTable(isWrite)[address + 1]
  ELSE IF cs1Active /\ ~cs0Active /\ address = 6
    THEN (IF isWrite THEN "devctl" ELSE "altstatus")
  ELSE IF cs1Active /\ ~cs0Active /\ address = 7 THEN "drive_addr"
  ELSE None

\* the register the cycle in `samples` addresses, by the decision table
CycleReg == Classified(Cs0Active, Cs1Active, Address, matched["diow"] = 0)

DecoderUnchanged == UNCHANGED <<tf, hob, in_cdb, cdb_bytes_expected, cdb_buf>>

-----------------------------------------------------------------------------
(* C1: a write cycle that is not discarded, to Features, SectorCount,      *)
(* LBA0, LBA1 or LBA2, stores its byte in the hob_ field of that register  *)
(* if bit 7 of the most recent Device Control write was set, and in the    *)
(* primary field otherwise (also when there was no such write yet); a      *)
(* write to Device always stores in the primary field.  Every other field  *)
(* keeps its value.                                                        *)
C1_HobRedirection ==
  [][ (Decoding /\ ~CycleSquelched /\ WriteCycle /\ CycleReg \in ParamRegs)
        => LET field == IF CycleReg # "device" /\ last_devctl_hob = 1
                          THEN HobOf(CycleReg) ELSE CycleReg
           IN  tf' = [tf EXCEPT ![field] = DataByte] ]_vars

\* an LBA1 write after a Device Control write with bit 7 set went to hob_lba1
C1_Witness ==
  /\ Decoded /\ ~CycleSquelched /\ WriteCycle /\ CycleReg = "lba1"
  /\ last_devctl_hob = 1 /\ DataByte = 128
  /\ tf["hob_lba1"] = 128 /\ tf["lba1"] = 0

-----------------------------------------------------------------------------
(* C3: with squelch_dma enabled and DMARQ high at the strobe edge, the     *)
(* cycle emits no annotation and leaves the task file, the HOB latch and   *)
(* the CDB capture state unchanged, whatever the register, direction and   *)
(* data byte.                                                              *)
C3_DmaSquelch ==
  [][ (Decoding /\ options["squelch_dma"] /\ samples["dmarq"] = 1)
        => (out' = << >> /\ DecoderUnchanged) ]_vars

\* a squelched PACKET command write: no capture was opened
C3_Witness ==
  /\ Decoded /\ options["squelch_dma"] /\ samples["dmarq"] = 1
  /\ WriteCycle /\ CycleReg = "command" /\ DataByte = PACKET
  /\ ~in_cdb /\ cdb_bytes_expected = 0 /\ out = << >>

-----------------------------------------------------------------------------
(* C5: the HOB latch changes only in a Device Control write cycle (not     *)
(* discarded), where it becomes bit 7 of the written byte; every other     *)
(* step leaves it unchanged.                                               *)
C5_HobLatchFrame ==
  [][ IF Decoding /\ ~CycleSquelched /\ matched["diow"] = 0 /\ CycleReg = "devctl"
        THEN hob' = samples["d7"]
        ELSE hob' = hob ]_vars

\* a Device Control write of 0x80 has set the latch
C5_Witness ==
  /\ Decoded /\ ~CycleSquelched /\ WriteCycle /\ CycleReg = "devctl"
  /\ DataByte = 128 /\ hob = 1

-----------------------------------------------------------------------------
(* C6: for every combination of the two selects, the 3-bit address and the *)
(* direction, the classifier yields the register of the decision table,    *)
(* and None when both or neither select is active or the control block is  *)
(* addressed below 6.                                                      *)
RegisterIds ==
  {"data", "features", "error", "sector_count", "lba0", "lba1", "lba2", "device",
   "command", "status", "devctl", "altstatus", "drive_addr"}

C6_Classification ==
  (Decoding \/ Decoded) =>
     /\ reg = CycleReg
     /\ reg \in RegisterIds \cup {None}
     /\ (Cs0Active = Cs1Active) => reg = None
     /\ (Cs1Active /\ ~Cs0Active /\ Address < 6) => reg = None

\* an Alternate Status read: CS1- alone low, address 6, DIOR- low
C6_Witness ==
  /\ Decoding /\ Cs1Active /\ ~Cs0Active /\ Address = 6 /\ ReadCycle
  /\ reg = "altstatus"

-----------------------------------------------------------------------------
(* C7: a cycle that is not squelched and whose selects and address         *)
(* classify to None emits no annotation, changes nothing of the decoder    *)
(* state and ends the loop iteration, after which the next cycle is        *)
(* awaited.                                                                *)
C7_UnrecognizedCycle ==
  /\ [][ (Decoding /\ ~CycleSquelched /\ CycleReg = None)
           => (out' = << >> /\ DecoderUnchanged /\ pc' = "next") ]_vars
  /\ [][ (Decoded /\ CycleReg = None) => pc' = "wait" ]_vars

\* a write of 0x80 with both selects low left the latch clear
C7_Witness ==
  /\ Decoded /\ ~CycleSquelched /\ Cs0Active /\ Cs1Active /\ WriteCycle
  /\ DataByte = 128 /\ hob = 0 /\ out = << >>

-----------------------------------------------------------------------------
(* C10 as stated: with no CDB capture active, a Data-register read or      *)
(* write that is not discarded emits nothing when ignore_data is enabled,  *)
(* whatever the other options, and exactly one raw Data annotation         *)
(* (register-write class for a write, register-read class for a read)      *)
(* when it is disabled.                                                    *)
C10_DataSuppression ==
  [][ (Decoding /\ ~CycleSquelched /\ CycleReg = "data" /\ ~in_cdb
         /\ (WriteCycle \/ ReadCycle))
        => IF options["ignore_data"]
             THEN out' = << >>
             ELSE /\ Len(out') = 1
                  /\ out'[1].aidx = (IF WriteCycle THEN ANN_REGW ELSE ANN_REGR)
                  /\ out'[1].fmt = "DATA {}: 0x" ]_vars

-----------------------------------------------------------------------------
(* C9: from reset, the writes Device Control 0x00, SectorCount 0x01,       *)
(* LBA0 0x10, LBA1 0x00, LBA2 0x00, Device 0xE0, Command 0x20 emit one     *)
(* annotation each, in this order: the Device Control annotation with      *)
(* HOB=0, the register writes of sector_count, lba0, lba1, lba2 and        *)
(* device (primary fields), and the command annotation with opcode 0x20    *)
(* READ SECTORS, sector count 1, LBA28 0x00000010, device 0xE0, mode LBA;  *)
(* no CDB capture is active at any point.                                  *)
E2EExpected ==
  << Ann(5, "DEVCTL write: SRST= nIEN= HOB=", << >>, <<0, 0, 0>>),
     Ann(0, "{} = 0x", <<"sector_count">>, <<1>>),
     Ann(0, "{} = 0x", <<"lba0">>, <<16>>),
     Ann(0, "{} = 0x", <<"lba1">>, <<0>>),
     Ann(0, "{} = 0x", <<"lba2">>, <<0>>),
     Ann(0, "{} = 0x", <<"device">>, <<224>>),
     Ann(2, "CMD 0x {}  SC=  {}=0x  DEV=0x({})", <<"READ SECTORS", "LBA28", "LBA">>,
         <<32, 1, 0, 16, 224>>) >>

C9_EndToEnd ==
  (host.name = "e2e" /\ step <= 7) =>
     /\ ~in_cdb
     /\ (Decoded /\ step >= 1) => out = <<E2EExpected[step]>>
     /\ (Decoded /\ step = 7) =>
          tf = [k \in TfKeys |->
                  CASE k = "sector_count" -> 1 [] k = "lba0" -> 16
                    [] k = "device" -> 224 [] OTHER -> 0]

\* the Command write has been decoded and annotated
C9_Witness ==
  /\ host.name = "e2e" /\ Decoded /\ step = 7
  /\ Len(out) = 1 /\ out[1].aidx = ANN_CMD /\ out[1].n[1] = 32

-----------------------------------------------------------------------------
(* C8: on a Command write the annotation carries mode LBA iff bit 6 of the *)
(* device byte is set (else CHS); it is extended iff one of                *)
(* hob_sector_count, hob_lba0, hob_lba1, hob_lba2 is nonzero, whatever     *)
(* hob_features; extended, the sector count is hob_sector_count * 256 +    *)
(* sector_count and the LBA the 48-bit value of the six LBA bytes, tagged  *)
(* LBA48; otherwise the sector count is sector_count and the LBA the       *)
(* 28-bit value of the low four device bits and the three LBA bytes,       *)
(* tagged LBA28.  The values are those the host loaded (host.p).  LBA      *)
(* values are two 24-bit limbs: 0x03123456 is <<3, 0x123456>>,             *)
(* 0xAABBCC123456 is <<0xAABBCC, 0x123456>>.                               *)
Bytes3(b2, b1, b0) == b2 * 65536 + b1 * 256 + b0

C8_Addressing ==
  (host.name = "load" /\ Decoded /\ step = 14) =>
     LET p   == host.p
         ext == p.hob_sector_count # 0 \/ p.hob_lba0 # 0 \/ p.hob_lba1 # 0
                  \/ p.hob_lba2 # 0
         low == Bytes3(p.lba[1], p.lba[2], p.lba[3])
         cmd == out[1]
     IN  /\ Len(out) = 1 /\ cmd.aidx = ANN_CMD
         /\ cmd.s[3] = (IF (p.device \div 64) % 2 = 1 THEN "LBA" ELSE "CHS")
         /\ cmd.s[2] = (IF ext THEN "LBA48" ELSE "LBA28")
         /\ cmd.n[2] = (IF ext THEN p.hob_sector_count * 256 + p.sector_count
                        ELSE p.sector_count)
         /\ <<cmd.n[3], cmd.n[4]>>
              = (IF ext THEN <<Bytes3(p.hob_lba2, p.hob_lba1, p.hob_lba0), low>>
                 ELSE <<p.device % 16, low>>)
         /\ (p.device = 67 /\ p.lba = <<18, 52, 86>>) =>
              /\ ~ext => (cmd.s = <<"READ SECTORS", "LBA28", "LBA">>
                           /\ <<cmd.n[3], cmd.n[4]>> = <<3, 1193046>>)
              /\ (p.hob_lba2 = 170 /\ p.hob_lba1 = 187 /\ p.hob_lba0 = 204) =>
                   (cmd.s = <<"READ SECTORS", "LBA48", "LBA">>
                     /\ <<cmd.n[3], cmd.n[4]>> = <<11189196, 1193046>>)

\* device 0x43, LBA bytes 0x12 0x34 0x56, high bytes 0xAA 0xBB 0xCC, hob_features set
C8_Witness ==
  /\ host.name = "load" /\ Decoded /\ step = 14
  /\ tf["device"] = 67 /\ tf["lba2"] = 18 /\ tf["lba1"] = 52 /\ tf["lba0"] = 86
  /\ tf["hob_lba2"] = 170 /\ tf["hob_lba1"] = 187 /\ tf["hob_lba0"] = 204
  /\ tf["hob_sector_count"] = 2 /\ tf["hob_features"] = 85
  /\ out[1].n = <<32, 513, 11189196, 1193046, 67>>

-----------------------------------------------------------------------------
(* C2: with parse_cdb enabled, after a Command write of 0xA0 the next 12   *)
(* Data writes are collected in order; the first emits the CDB opcode      *)
(* annotation, the 12th the one completion annotation, the ones between    *)
(* emit nothing, and the capture is active until the 12th and inactive     *)
(* after it; a 13th Data write appends nothing and emits no cdb            *)
(* annotation: nothing with ignore_data, one raw Data write annotation     *)
(* without.                                                                *)
PacketAt == Len(PacketPrefix(host.p)) + 1     \* the script index of the PACKET write
Collected == step - PacketAt                  \* Data writes issued since

C2_CdbCapture ==
  (host.name = "packet-run" /\ Decoded /\ options["parse_cdb"]) =>
     LET cdb == Cdbs[host.p.cdb]
         k   == Collected
     IN  /\ k = 0 => (in_cdb /\ cdb_buf = << >>)
         /\ (1 <= k /\ k <= 12) =>
              /\ cdb_buf = SubSeq(cdb, 1, k)
              /\ in_cdb = (k < 12)
              /\ Len(out) = (IF k = 1 THEN 1 ELSE 0) + (IF k = 12 THEN 1 ELSE 0)
              /\ k = 1 => (out[1].aidx = ANN_CDB /\ out[1].fmt = "ATAPI CDB[0]=0x {}"
                            /\ out[1].n = <<cdb[1]>>)
              /\ k = 12 => out = <<Ann(3, "CDB complete ( bytes)", << >>, <<12>>)>>
         /\ k = 13 =>
              /\ ~in_cdb /\ cdb_buf = cdb
              /\ out = (IF options["ignore_data"] THEN << >>
                        ELSE <<Ann(0, "DATA {}: 0x", <<"WRITE">>, <<host.p.x>>)>>)

\* the 13th Data write, annotated as a raw Data write
C2_Witness ==
  /\ host.name = "packet-run" /\ Decoded /\ options["parse_cdb"]
  /\ ~options["ignore_data"] /\ Collected = 13 /\ host.p.x = 160
  /\ Len(cdb_buf) = 12 /\ ~in_cdb /\ Len(out) = 1 /\ out[1].aidx = ANN_REGW

-----------------------------------------------------------------------------
(* C4: a Command write of 0xA0 that is not discarded leaves the capture    *)
(* active with cdb_bytes_expected = 12 and no collected byte, whatever the *)
(* capture state before it (idle, n bytes collected, or completed); with   *)
(* parse_cdb enabled the capture then stays active for 11 Data writes and  *)
(* completes on the 12th, holding exactly these 12 bytes.                  *)
C4_Restarted ==
  (host.name = "packet-run" /\ Decoded /\ host.p.pre >= 0) =>
     /\ Collected = 0 => (in_cdb /\ cdb_bytes_expected = 12 /\ cdb_buf = << >>)
     /\ (options["parse_cdb"] /\ 1 <= Collected /\ Collected < 12) =>
          (in_cdb /\ Len(cdb_buf) = Collected)
     /\ (options["parse_cdb"] /\ Collected = 12) =>
          (~in_cdb /\ cdb_buf = Cdbs[host.p.cdb])

C4_MidCaptureRestart ==
  /\ []C4_Restarted
  /\ [][ (Decoding /\ ~CycleSquelched /\ WriteCycle /\ CycleReg = "command"
            /\ DataByte = PACKET)
           => (in_cdb' /\ cdb_bytes_expected' = 12 /\ cdb_buf' = << >>) ]_vars

\* a PACKET write after five collected bytes has emptied the buffer
C4_Witness ==
  /\ host.name = "packet-run" /\ Decoded /\ options["parse_cdb"]
  /\ host.p.pre = 5 /\ Collected = 0
  /\ in_cdb /\ cdb_buf = << >>

-----------------------------------------------------------------------------
(* C11: annotations reach the sink in bus-cycle order, unbuffered: a       *)
(* record is appended to the sink only while its cycle is being decoded,   *)
(* carrying that cycle's sample index as start and end; once a cycle has   *)
(* been decoded (and so before the next wait) the sink already holds all   *)
(* of its annotations, in the order put; for any two records the earlier   *)
(* one has a start sample less than or equal to the later one's, and the   *)
(* records of one cycle are contiguous.                                    *)
SinkOf(n) == SelectSeq(sink, LAMBDA r : r.cycle = n)

C11_SinkOrdered ==
  Traced(host) =>
    /\ \A i \in 1..Len(sink) : \A j \in i..Len(sink) :
         /\ sink[i].ss <= sink[j].ss
         /\ sink[i].cycle <= sink[j].cycle
         /\ sink[i].cycle = sink[j].cycle <=> sink[i].ss = sink[j].ss
    /\ \A i \in 1..Len(sink) : sink[i].cycle <= step /\ sink[i].ss <= samplenum
    /\ Decoded => [i \in 1..Len(SinkOf(step)) |-> SinkOf(step)[i].ann] = out
    /\ Decoding => SinkOf(step) = << >>

C11_AnnotationOrdering ==
  /\ []C11_SinkOrdered
  /\ [][ (Traced(host) /\ sink' # sink) =>
           /\ Decoding /\ pc' = "next" /\ samplenum' = samplenum
           /\ Len(sink') > Len(sink) /\ SubSeq(sink', 1, Len(sink)) = sink
           /\ \A i \in (Len(sink) + 1)..Len(sink') :
                sink'[i].ss = samplenum /\ sink'[i].es = samplenum ]_vars

\* a Status read has put two annotations after the Device Control write's one
C11_Witness ==
  /\ Traced(host) /\ Decoded /\ step = 2 /\ Len(sink) = 3
  /\ sink[1].ann.aidx = ANN_DEVCTL /\ sink[2].ann.aidx = ANN_STATUS
  /\ sink[3].ann.aidx = ANN_INTRQ
  /\ sink[1].ss < sink[2].ss /\ sink[2].ss = sink[3].ss

-----------------------------------------------------------------------------
(* C12: a read cycle (DIOR- alone low) that is not discarded, of a         *)
(* register other than Data, emits a read annotation (naming the register  *)
(* and the byte read) if and only if the register is Status or AltStatus   *)
(* or emit_reads is enabled; otherwise (Error, SectorCount, LBA0-2,        *)
(* Device, DriveAddress with emit_reads disabled) it emits nothing.        *)
ReadRegisters ==
  {"error", "sector_count", "lba0", "lba1", "lba2", "device", "status",
   "altstatus", "drive_addr"}

IsReadAnnotation(a) == a.fmt = "{} read: 0x" /\ a.n = <<DataByte>>

C12_ReadPolicy ==
  [][ (Decoding /\ ~CycleSquelched /\ ReadCycle /\ CycleReg \in ReadRegisters)
        => IF CycleReg \in {"status", "altstatus"} \/ options["emit_reads"]
             THEN /\ Len(out') >= 1
                  /\ IsReadAnnotation(out'[1])
                  /\ out'[1].s \in {<<CycleReg>>, <<Upper(CycleReg)>>}
                  /\ \A i \in 2..Len(out') : ~IsReadAnnotation(out'[i])
             ELSE out' = << >> ]_vars

\* an AltStatus read annotated with emit_reads disabled
C12_Witness ==
  /\ Decoded /\ ~CycleSquelched /\ ReadCycle /\ CycleReg = "altstatus"
  /\ ~options["emit_reads"] /\ DataByte = 128
  /\ Len(out) >= 1 /\ out[1].s = <<"ALTSTATUS">> /\ out[1].n = <<128>>

-----------------------------------------------------------------------------
(* C13 as stated: the "interrupt cleared" annotation is emitted only on a  *)
(* read cycle that is annotated, and only if the INTRQ channel is wired    *)
(* and reads false in that cycle's snapshot; with INTRQ not wired, or      *)
(* reading true, no interrupt annotation is emitted.                       *)
HasIntrqAnn == \E i \in 1..Len(out) : out[i].aidx = ANN_INTRQ

C13_InterruptAnnotation ==
  (Decoded /\ HasIntrqAnn) =>
     /\ matched["dior"] = 0
     /\ Len(out) = 2 /\ out[1].fmt = "{} read: 0x" /\ out[2].aidx = ANN_INTRQ
     /\ IntrqWired(host)
     /\ samples["intrq"] = 0

-----------------------------------------------------------------------------
(* C14: in every reachable state the collected CDB bytes number at most    *)
(* 12; the capture is inactive as soon as they number 12 (it is            *)
(* deactivated by the very cycle that collects the 12th), and no cycle     *)
(* appends a byte to 12 collected ones.                                    *)
C14_NoOverlongCdb ==
  /\ [](Len(cdb_buf) <= 12 /\ (Len(cdb_buf) = 12 => ~in_cdb))
  /\ [][ /\ Len(cdb_buf') <= 12
         /\ Len(cdb_buf) = 12 => (cdb_buf' = cdb_buf \/ cdb_buf' = << >>)
         /\ (Len(cdb_buf) = 11 /\ Len(cdb_buf') = 12) => (in_cdb /\ ~in_cdb') ]_vars

\* a Data write after twelve collected bytes: nothing appended, no cdb annotation
C14_Witness ==
  /\ Decoded /\ ~CycleSquelched /\ WriteCycle /\ CycleReg = "data"
  /\ Len(cdb_buf) = 12 /\ ~in_cdb /\ cdb_bytes_expected = 12
  /\ \A i \in 1..Len(out) : out[i].aidx # ANN_CDB

-----------------------------------------------------------------------------
(* C15: the eleven task-file fields are all zero after initialization; a   *)
(* step changes them only in decoding a write cycle (DIOW- low), not       *)
(* discarded, to Features, SectorCount, LBA0, LBA1, LBA2 or Device, and    *)
(* then in exactly one field; every read cycle, Device Control write,      *)
(* Command write (PACKET included) and Data access leaves all eleven       *)
(* unchanged.                                                              *)
ParameterRegisters == {"features", "sector_count", "lba0", "lba1", "lba2", "device"}

ChangedFields == {k \in TfKeys : tf'[k] # tf[k]}

C15_ShadowBankFrame ==
  /\ (DOMAIN tf = TfKeys /\ Cardinality(TfKeys) = 11 /\ \A k \in TfKeys : tf[k] = 0)
  /\ [][ /\ DOMAIN tf' = TfKeys
         /\ tf' # tf =>
              /\ Decoding /\ ~CycleSquelched /\ matched["diow"] = 0
              /\ CycleReg \in ParameterRegisters
              /\ Cardinality(ChangedFields) = 1
         /\ (Decoding /\ (ReadCycle \/ CycleReg \in {"devctl", "command", "data"}))
              => tf' = tf ]_vars

\* a Command write has left the one stored byte as it was
C15_Witness ==
  /\ Decoded /\ ~CycleSquelched /\ tf["hob_lba1"] = 128
  /\ \A k \in TfKeys \ {"hob_lba1"} : tf[k] = 0
  /\ WriteCycle /\ CycleReg = "command" /\ Len(out) = 1 /\ out[1].aidx = ANN_CMD

-----------------------------------------------------------------------------
(* C16: for every 8-bit opcode, a Command write names the command from the *)
(* custom ATA table if the opcode is a key there, else from the standard   *)
(* ATA table, else "UNKNOWN"; the first CDB byte is named from the custom  *)
(* CDB table, else the standard CDB table, else "SCSI CDB".  An opcode in  *)
(* neither table yields exactly one command annotation and the state       *)
(* changes of a known opcode (none, 0xA0 being in the standard table).     *)
Keys(t) == {t[i][1] : i \in 1..Len(t)}
Entry(t, k) == t[CHOOSE i \in 1..Len(t) : t[i][1] = k][2]

TwoTier(custom, standard, k, fallback) ==
  IF k \in Keys(custom) THEN Entry(custom, k)
  ELSE IF k \in Keys(standard) THEN Entry(standard, k)
  ELSE fallback

C16_Decoded == host.name = "opcode" /\ Decoded /\ step = Len(OpcodeScript(host.p))

C16_Mnemonic ==
  /\ [](C16_Decoded =>
          IF host.p.kind = "command"
            THEN /\ Len(out) = 1 /\ out[1].aidx = ANN_CMD
                 /\ out[1].n[1] = host.p.code
                 /\ out[1].s[1] = TwoTier(CUSTOM_ATA_COMMANDS, ATA_COMMANDS,
                                          host.p.code, "UNKNOWN")
                 /\ in_cdb = (host.p.code = PACKET)
                 /\ tf = [k \in TfKeys |-> 0] /\ hob = 0
            ELSE options["parse_cdb"] =>
                   /\ Len(out) = 1 /\ out[1].aidx = ANN_CDB
                   /\ out[1].n = <<host.p.code>>
                   /\ out[1].s = <<TwoTier(CUSTOM_ATAPI_CDB, ATAPI_CDB,
                                           host.p.code, "SCSI CDB")>>)
  /\ [][ (host.name = "opcode" /\ Decoding /\ step = 1 /\ host.p.kind = "command"
            /\ host.p.code \notin Keys(CUSTOM_ATA_COMMANDS) \cup Keys(ATA_COMMANDS))
           => (DecoderUnchanged /\ Len(out') = 1) ]_vars

\* opcode 0x01, in neither ATA table, has been annotated as UNKNOWN
C16_Witness ==
  /\ C16_Decoded /\ host.p.kind = "command" /\ host.p.code = 1
  /\ out[1].s[1] = "UNKNOWN" /\ ~in_cdb

-----------------------------------------------------------------------------
(* C17: with parse_cdb disabled a capture started by a PACKET command      *)
(* never ends: every step keeps it active and the collected bytes empty,   *)
(* and each Data write that is not discarded while it is active emits      *)
(* exactly the generic "CDB byte" marker, whatever ignore_data; so it is   *)
(* after the 12th, the 13th and every later Data write of a run.           *)
CdbByteMarker(a) == a.aidx = ANN_CDB /\ a.fmt = "ATAPI CDB byte"

C17_AfterPacket ==
  (host.name = "packet-run" /\ ~options["parse_cdb"] /\ Decoded /\ Collected >= 0) =>
     /\ in_cdb /\ cdb_buf = << >> /\ cdb_bytes_expected = 12
     /\ (WriteCycle /\ CycleReg = "data") => (Len(out) = 1 /\ CdbByteMarker(out[1]))

-----------------------------------------------------------------------------
(* C18: while a capture is active, every cycle other than a Data write or  *)
(* a Command write of 0xA0 that is not discarded (a cycle with DIOW- low   *)
(* to that register) leaves the active flag and the collected bytes        *)
(* unchanged; with parse_cdb enabled every Data write (DIOW- alone low)    *)
(* that is not discarded collects one byte, and the capture is active      *)
(* after it exactly if fewer than 12 are collected.                        *)
CaptureCycle ==
  /\ ~CycleSquelched /\ matched["diow"] = 0
  /\ \/ CycleReg = "data"
     \/ CycleReg = "command" /\ DataByte = PACKET

-----------------------------------------------------------------------------
(* C19: once one of hob_sector_count, hob_lba0, hob_lba1, hob_lba2 is      *)
(* nonzero, every later Command write, of any opcode, is annotated with    *)
(* the 48-bit LBA and the 16-bit sector count, also after a Device Control *)
(* write has cleared the HOB latch and new primary values were written;    *)
(* the annotation is LBA28 again only once writes under the latch have     *)
(* zeroed all four fields.  These four fields change only in a parameter   *)
(* write decoded while the latch is set.                                   *)
ExtendedFields == {"hob_sector_count", "hob_lba0", "hob_lba1", "hob_lba2"}

\* the command annotation of the cycle just decoded is the extended one
\* whose high-order part is byte v of register da
ExtendedBy(da, v) ==
  /\ Len(out) = 1 /\ out[1].aidx = ANN_CMD /\ out[1].s[2] = "LBA48"
  /\ out[1].n[2] = (IF da = 2 THEN v * 256 ELSE 0) + tf["sector_count"]
  /\ out[1].n[3] = (CASE da = 3 -> v [] da = 4 -> v * 256 [] da = 5 -> v * 65536
                      [] OTHER -> 0)

C19_Scenario ==
  (host.name = "sticky" /\ Decoded) =>
     /\ step = 9 => (hob = 0 /\ ExtendedBy(host.p.da, host.p.v)
                      /\ out[1].n[1] = host.p.op /\ tf["sector_count"] = 1)
     /\ step = 11 => (hob = 0 /\ ExtendedBy(host.p.da, host.p.v) /\ out[1].n[1] = 0)
     /\ step = 15 => /\ \A k \in ExtendedFields : tf[k] = 0
                     /\ Len(out) = 1 /\ out[1].aidx = ANN_CMD
                     /\ out[1].s[2] = "LBA28" /\ out[1].n[1] = host.p.op

C19_StickyExtended ==
  /\ []C19_Scenario
  /\ [][ (\E k \in ExtendedFields : tf'[k] # tf[k])
           => (Decoding /\ hob = 1 /\ matched["diow"] = 0
                /\ CycleReg \in {"sector_count", "lba0", "lba1", "lba2"}) ]_vars
  /\ [][ (Decoding /\ ~CycleSquelched /\ WriteCycle /\ CycleReg = "command")
           => /\ Len(out') = 1 /\ out'[1].aidx = ANN_CMD
              /\ out'[1].s[2] = (IF \E k \in ExtendedFields : tf[k] # 0
                                   THEN "LBA48" ELSE "LBA28") ]_vars

\* hob_lba2 = 0xFF, latch cleared, primaries rewritten: IDENTIFY is still LBA48
C19_Witness ==
  /\ host.name = "sticky" /\ Decoded /\ step = 9 /\ hob = 0
  /\ host.p.da = 5 /\ host.p.v = 255 /\ host.p.op = 236
  /\ tf["hob_lba2"] = 255 /\ tf["lba0"] = 16
  /\ out[1].s[2] = "LBA48" /\ out[1].n = <<236, 1, 16711680, 16, 224>>

-----------------------------------------------------------------------------
(* C20: in every reachable state cdb_bytes_expected is 0 or 12, and while  *)
(* the capture is active cdb_bytes_expected is 12 and fewer than 12 bytes  *)
(* are collected; the capture is inactive at reset and becomes active only *)
(* in decoding a Command write of 0xA0 that is not discarded.              *)
C20_CaptureState ==
  /\ cdb_bytes_expected \in {0, 12}
  /\ in_cdb => (cdb_bytes_expected = 12 /\ Len(cdb_buf) < 12)

C20_CaptureInvariant ==
  /\ (~in_cdb /\ cdb_bytes_expected = 0 /\ cdb_buf = << >>)
  /\ []C20_CaptureState
  /\ [][ (~in_cdb /\ in_cdb')
           => (Decoding /\ ~CycleSquelched /\ matched["diow"] = 0
                /\ CycleReg = "command" /\ DataByte = PACKET) ]_vars

\* a capture with eleven bytes collected
C20_Witness ==
  /\ in_cdb /\ cdb_bytes_expected = 12 /\ Len(cdb_buf) = 11 /\ Decoded
  /\ WriteCycle /\ CycleReg = "data" /\ out = << >>

-----------------------------------------------------------------------------
(* C21: every read annotation put because the register is Status or        *)
(* AltStatus or because emit_reads is enabled is of the status class, for  *)
(* every register, Data included; an annotation of the register-read class *)
(* is put only for a Data-register read with emit_reads and ignore_data    *)
(* both disabled, and is then the raw Data annotation: the "{reg} read"    *)
(* annotation of the end of the chain is never put.                        *)
C21_Policy ==
  /\ ~CycleSquelched /\ ReadCycle /\ CycleReg # None
  /\ CycleReg \in {"status", "altstatus"} \/ options["emit_reads"]

====
